---- MODULE Spec2Model ----
(***************************************************************************)
(* Model of the cw-option contract (src/contract.rs): one persisted State  *)
(* record under the CONFIG item, created by instantiate, moved by          *)
(* execute_transfer, consumed by execute_execute or execute_burn, read by  *)
(* query_config.                                                           *)
(***************************************************************************)
EXTENDS Integers, Sequences, FiniteSets, TLC

\* ------------------------------------------------------------------ bounds
MaxHeight == 2
MaxAmount == 2

\* ------------------------------------------------------------------ inputs
Addrs == {"creator", "owner", "anyone"}
InvalidAddrs == {"x"}
Recipients == Addrs \cup InvalidAddrs
\* one BTC coin (the collateral of the tests) and ETH coins of several amounts
Collateral == <<[denom |-> "BTC", amount |-> 1]>>
Coins == {Collateral[1]} \cup [denom : {"ETH"}, amount : 1..MaxAmount]
\* Vec<Coin> values of at most two entries, in every order, duplicates included
Funds == {<<>>} \cup {<<c>> : c \in Coins} \cup {<<c, d>> : c \in Coins, d \in Coins}
\* funds attached to instantiate (the collateral) and to transfer
SmallFunds == {<<>>, Collateral}
Expiries == 1..MaxHeight

\* ------------------------------------------------------------------- state
\* CONFIG         the storage item: <<>> (absent) or <<State>>
\* height         env.block.height
\* last           <<>> or the invocation just answered (inputs, storage before, result)
\* lastRecipient  <<>> or the recipient of the latest successful Transfer of the
\*                record created by the latest successful Instantiate
\* settled        the successful Execute / Burn calls since the latest successful
\*                Instantiate, in order
VARIABLES CONFIG, height, last, lastRecipient, settled
vars == <<CONFIG, height, last, lastRecipient, settled>>

\* ------------------------------------------------------------ result values
NoError == [kind |-> "None"]
NotFound == [kind |-> "NotFound"]
Unauthorized == [kind |-> "Unauthorized"]
FundsSentWithBurn == [kind |-> "FundsSentWithBurn"]
OptionExpired(e) == [kind |-> "OptionExpired", expired |-> e]
OptionNotExpired(e) == [kind |-> "OptionNotExpired", expires |-> e]
CounterOfferMismatch(o, c) == [kind |-> "CounterOfferMismatch", offer |-> o, counter_offer |-> c]
InvalidAddress(r) == [kind |-> "InvalidAddress", input |-> r]

BankSend(to, amt) == [to_address |-> to, amount |-> amt]

\* Ok(Response) / Err(ContractError), together with the storage the handler leaves
Ok(st, msgs, attrs) ==
    [storage |-> st, ok |-> TRUE, err |-> NoError, messages |-> msgs, attributes |-> attrs,
     data |-> <<>>]
Err(st, e) ==
    [storage |-> st, ok |-> FALSE, err |-> e, messages |-> <<>>, attributes |-> <<>>,
     data |-> <<>>]

\* deps.api.addr_validate: Addr carrying the input string, or an error
addr_validate(recipient) ==
    IF recipient \in InvalidAddrs
    THEN [ok |-> FALSE, addr |-> recipient]
    ELSE [ok |-> TRUE, addr |-> recipient]

\* ---------------------------------------------------------------- handlers
\* variant: the expiry test lets expires = height through
instantiate_AcceptsEqualHeight(storage, h, sender, funds, msg) ==
    IF msg.expires < h
    THEN Err(storage, OptionExpired(msg.expires))
    ELSE Ok(<<[creator |-> sender,
               owner |-> sender,
               collateral |-> funds,
               counter_offer |-> msg.counter_offer,
               expires |-> msg.expires]>>,
            <<>>, <<>>)

\* variant: collateral taken from the message instead of the attached funds
instantiate_CollateralFromMsg(storage, h, sender, funds, msg) ==
    IF msg.expires <= h
    THEN Err(storage, OptionExpired(msg.expires))
    ELSE Ok(<<[creator |-> sender,
               owner |-> sender,
               collateral |-> msg.counter_offer,
               counter_offer |-> msg.counter_offer,
               expires |-> msg.expires]>>,
            <<>>, <<>>)

instantiate(storage, h, sender, funds, msg) ==
    IF msg.expires <= h
    THEN Err(storage, OptionExpired(msg.expires))
    ELSE Ok(<<[creator |-> sender,
               owner |-> sender,
               collateral |-> funds,
               counter_offer |-> msg.counter_offer,
               expires |-> msg.expires]>>,
            <<>>, <<>>)

\* variant: the owner is written before the recipient is validated
execute_transfer_SaveBeforeValidate(storage, h, sender, funds, recipient) ==
    IF storage = <<>> THEN Err(storage, NotFound)
    ELSE LET state == storage[1] IN
         IF sender # state.owner THEN Err(storage, Unauthorized)
         ELSE LET v == addr_validate(recipient)
                  saved == <<[state EXCEPT !.owner = recipient]>> IN
              IF ~v.ok THEN Err(saved, InvalidAddress(recipient))
              ELSE Ok(saved,
                      <<>>,
                      <<<<"action", "transfer">>, <<"owner", recipient>>>>)

\* variant: the creator may always transfer
execute_transfer_CreatorAllowed(storage, h, sender, funds, recipient) ==
    IF storage = <<>> THEN Err(storage, NotFound)
    ELSE LET state == storage[1] IN
         IF sender # state.owner /\ sender # state.creator THEN Err(storage, Unauthorized)
         ELSE LET v == addr_validate(recipient) IN
              IF ~v.ok THEN Err(storage, InvalidAddress(recipient))
              ELSE Ok(<<[state EXCEPT !.owner = v.addr]>>,
                      <<>>,
                      <<<<"action", "transfer">>, <<"owner", recipient>>>>)

\* variant: the recipient is written to creator as well as owner
execute_transfer_MovesCreator(storage, h, sender, funds, recipient) ==
    IF storage = <<>> THEN Err(storage, NotFound)
    ELSE LET state == storage[1] IN
         IF sender # state.owner THEN Err(storage, Unauthorized)
         ELSE LET v == addr_validate(recipient) IN
              IF ~v.ok THEN Err(storage, InvalidAddress(recipient))
              ELSE Ok(<<[state EXCEPT !.owner = v.addr, !.creator = v.addr]>>,
                      <<>>,
                      <<<<"action", "transfer">>, <<"owner", recipient>>>>)

\* variant: transfer refused once the option has expired
execute_transfer_ExpiryChecked(storage, h, sender, funds, recipient) ==
    IF storage = <<>> THEN Err(storage, NotFound)
    ELSE LET state == storage[1] IN
         IF sender # state.owner THEN Err(storage, Unauthorized)
         ELSE IF h >= state.expires THEN Err(storage, OptionExpired(state.expires))
         ELSE LET v == addr_validate(recipient) IN
              IF ~v.ok THEN Err(storage, InvalidAddress(recipient))
              ELSE Ok(<<[state EXCEPT !.owner = v.addr]>>,
                      <<>>,
                      <<<<"action", "transfer">>, <<"owner", recipient>>>>)

\* variant: funds attached to a transfer are added to the collateral
execute_transfer_KeepsFunds(storage, h, sender, funds, recipient) ==
    IF storage = <<>> THEN Err(storage, NotFound)
    ELSE LET state == storage[1] IN
         IF sender # state.owner THEN Err(storage, Unauthorized)
         ELSE LET v == addr_validate(recipient) IN
              IF ~v.ok THEN Err(storage, InvalidAddress(recipient))
              ELSE Ok(<<[state EXCEPT !.owner = v.addr,
                                      !.collateral = state.collateral \o funds]>>,
                      <<>>,
                      <<<<"action", "transfer">>, <<"owner", recipient>>>>)

execute_transfer(storage, h, sender, funds, recipient) ==
    IF storage = <<>> THEN Err(storage, NotFound)
    ELSE LET state == storage[1] IN
         IF sender # state.owner THEN Err(storage, Unauthorized)
         ELSE LET v == addr_validate(recipient) IN
              IF ~v.ok THEN Err(storage, InvalidAddress(recipient))
              ELSE Ok(<<[state EXCEPT !.owner = v.addr]>>,
                      <<>>,
                      <<<<"action", "transfer">>, <<"owner", recipient>>>>)

\* variant: the two bank messages are queued in the other order
execute_execute_CollateralFirst(storage, h, sender, funds) ==
    IF storage = <<>> THEN Err(storage, NotFound)
    ELSE LET state == storage[1] IN
         IF sender # state.owner THEN Err(storage, Unauthorized)
         ELSE IF h >= state.expires THEN Err(storage, OptionExpired(state.expires))
         ELSE IF funds # state.counter_offer
              THEN Err(storage, CounterOfferMismatch(funds, state.counter_offer))
         ELSE Ok(<<>>,
                 <<BankSend(state.owner, state.collateral),
                   BankSend(state.creator, state.counter_offer)>>,
                 <<<<"action", "execute">>>>)

\* variant: the expiry test comes before the owner test
execute_execute_ExpiryFirst(storage, h, sender, funds) ==
    IF storage = <<>> THEN Err(storage, NotFound)
    ELSE LET state == storage[1] IN
         IF h >= state.expires THEN Err(storage, OptionExpired(state.expires))
         ELSE IF sender # state.owner THEN Err(storage, Unauthorized)
         ELSE IF funds # state.counter_offer
              THEN Err(storage, CounterOfferMismatch(funds, state.counter_offer))
         ELSE Ok(<<>>,
                 <<BankSend(state.creator, state.counter_offer),
                   BankSend(state.owner, state.collateral)>>,
                 <<<<"action", "execute">>>>)

\* variant: the sender is compared with the creator instead of the owner
execute_execute_CreatorExercises(storage, h, sender, funds) ==
    IF storage = <<>> THEN Err(storage, NotFound)
    ELSE LET state == storage[1] IN
         IF sender # state.creator THEN Err(storage, Unauthorized)
         ELSE IF h >= state.expires THEN Err(storage, OptionExpired(state.expires))
         ELSE IF funds # state.counter_offer
              THEN Err(storage, CounterOfferMismatch(funds, state.counter_offer))
         ELSE Ok(<<>>,
                 <<BankSend(state.creator, state.counter_offer),
                   BankSend(state.owner, state.collateral)>>,
                 <<<<"action", "execute">>>>)

\* variant: the option is not removed after a successful exercise
execute_execute_NoRemove(storage, h, sender, funds) ==
    IF storage = <<>> THEN Err(storage, NotFound)
    ELSE LET state == storage[1] IN
         IF sender # state.owner THEN Err(storage, Unauthorized)
         ELSE IF h >= state.expires THEN Err(storage, OptionExpired(state.expires))
         ELSE IF funds # state.counter_offer
              THEN Err(storage, CounterOfferMismatch(funds, state.counter_offer))
         ELSE Ok(storage,
                 <<BankSend(state.creator, state.counter_offer),
                   BankSend(state.owner, state.collateral)>>,
                 <<<<"action", "execute">>>>)

\* variant: exercise still allowed at height = expires
execute_execute_ExpiryOffByOne(storage, h, sender, funds) ==
    IF storage = <<>> THEN Err(storage, NotFound)
    ELSE LET state == storage[1] IN
         IF sender # state.owner THEN Err(storage, Unauthorized)
         ELSE IF h > state.expires THEN Err(storage, OptionExpired(state.expires))
         ELSE IF funds # state.counter_offer
              THEN Err(storage, CounterOfferMismatch(funds, state.counter_offer))
         ELSE Ok(<<>>,
                 <<BankSend(state.creator, state.counter_offer),
                   BankSend(state.owner, state.collateral)>>,
                 <<<<"action", "execute">>>>)

execute_execute(storage, h, sender, funds) ==
    IF storage = <<>> THEN Err(storage, NotFound)
    ELSE LET state == storage[1] IN
         IF sender # state.owner THEN Err(storage, Unauthorized)
         ELSE IF h >= state.expires THEN Err(storage, OptionExpired(state.expires))
         ELSE IF funds # state.counter_offer
              THEN Err(storage, CounterOfferMismatch(funds, state.counter_offer))
         ELSE Ok(<<>>,
                 <<BankSend(state.creator, state.counter_offer),
                   BankSend(state.owner, state.collateral)>>,
                 <<<<"action", "execute">>>>)

\* variant: only the creator may burn
execute_burn_CreatorOnly(storage, h, sender, funds) ==
    IF storage = <<>> THEN Err(storage, NotFound)
    ELSE LET state == storage[1] IN
         IF sender # state.creator THEN Err(storage, Unauthorized)
         ELSE IF h < state.expires THEN Err(storage, OptionNotExpired(state.expires))
         ELSE IF funds # <<>> THEN Err(storage, FundsSentWithBurn)
         ELSE Ok(<<>>,
                 <<BankSend(state.creator, state.collateral)>>,
                 <<<<"action", "burn">>>>)

\* variant: the funds test comes before the expiry test
execute_burn_FundsFirst(storage, h, sender, funds) ==
    IF storage = <<>> THEN Err(storage, NotFound)
    ELSE LET state == storage[1] IN
         IF funds # <<>> THEN Err(storage, FundsSentWithBurn)
         ELSE IF h < state.expires THEN Err(storage, OptionNotExpired(state.expires))
         ELSE Ok(<<>>,
                 <<BankSend(state.creator, state.collateral)>>,
                 <<<<"action", "burn">>>>)

\* variant: the option is not removed after a successful burn
execute_burn_NoRemove(storage, h, sender, funds) ==
    IF storage = <<>> THEN Err(storage, NotFound)
    ELSE LET state == storage[1] IN
         IF h < state.expires THEN Err(storage, OptionNotExpired(state.expires))
         ELSE IF funds # <<>> THEN Err(storage, FundsSentWithBurn)
         ELSE Ok(storage,
                 <<BankSend(state.creator, state.collateral)>>,
                 <<<<"action", "burn">>>>)

\* variant: burn reports the action of execute
execute_burn_WrongAction(storage, h, sender, funds) ==
    IF storage = <<>> THEN Err(storage, NotFound)
    ELSE LET state == storage[1] IN
         IF h < state.expires THEN Err(storage, OptionNotExpired(state.expires))
         ELSE IF funds # <<>> THEN Err(storage, FundsSentWithBurn)
         ELSE Ok(<<>>,
                 <<BankSend(state.creator, state.collateral)>>,
                 <<<<"action", "execute">>>>)

execute_burn(storage, h, sender, funds) ==
    IF storage = <<>> THEN Err(storage, NotFound)
    ELSE LET state == storage[1] IN
         IF h < state.expires THEN Err(storage, OptionNotExpired(state.expires))
         ELSE IF funds # <<>> THEN Err(storage, FundsSentWithBurn)
         ELSE Ok(<<>>,
                 <<BankSend(state.creator, state.collateral)>>,
                 <<<<"action", "burn">>>>)

\* the answer of a query: the record read, or not-found
QueryOk(state) ==
    [ok |-> TRUE, err |-> NoError, messages |-> <<>>, attributes |-> <<>>, data |-> <<state>>]
QueryErr(e) ==
    [ok |-> FALSE, err |-> e, messages |-> <<>>, attributes |-> <<>>, data |-> <<>>]

query_config(storage) ==
    IF storage = <<>>
    THEN QueryErr(NotFound)
    ELSE QueryOk(storage[1])

\* ----------------------------------------------------------------- actions
NoMsg == [counter_offer |-> <<>>, expires |-> 0, recipient |-> ""]

\* the invocation just answered: its inputs, the storage before it, its result
Call(op, sender, funds, msg, r) ==
    <<[op |-> op, sender |-> sender, funds |-> funds, msg |-> msg,
       height |-> height, before |-> CONFIG,
       ok |-> r.ok, err |-> r.err,
       messages |-> r.messages, attributes |-> r.attributes, data |-> r.data]>>

Init ==
    /\ CONFIG = <<>>
    /\ height = 0
    /\ last = <<>>
    /\ lastRecipient = <<>>
    /\ settled = <<>>

\* instantiate with attached funds from F and a counter_offer from CO
InstantiateFrom(F, CO) ==
    /\ last = <<>>
    /\ \E sender \in Addrs, funds \in F, co \in CO, e \in Expiries :
         LET msg == [NoMsg EXCEPT !.counter_offer = co, !.expires = e]
             r == instantiate(CONFIG, height, sender, funds, msg)
         IN /\ CONFIG' = r.storage
            /\ last' = Call("Instantiate", sender, funds, msg, r)
            /\ lastRecipient' = IF r.ok THEN <<>> ELSE lastRecipient
            /\ settled' = IF r.ok THEN <<>> ELSE settled
    /\ UNCHANGED height

Instantiate == InstantiateFrom(SmallFunds, Funds)

\* ExecuteMsg::Transfer with attached funds from F
TransferFrom(F) ==
    /\ last = <<>>
    /\ \E sender \in Addrs, funds \in F, recipient \in Recipients :
         LET msg == [NoMsg EXCEPT !.recipient = recipient]
             r == execute_transfer(CONFIG, height, sender, funds, recipient)
         IN /\ CONFIG' = r.storage
            /\ last' = Call("Transfer", sender, funds, msg, r)
            /\ lastRecipient' = IF r.ok THEN <<recipient>> ELSE lastRecipient
    /\ UNCHANGED <<height, settled>>

Transfer == TransferFrom(SmallFunds)

\* ExecuteMsg::Execute with attached funds from F
ExecuteFrom(F) ==
    /\ last = <<>>
    /\ \E sender \in Addrs, funds \in F :
         LET r == execute_execute(CONFIG, height, sender, funds)
         IN /\ CONFIG' = r.storage
            /\ last' = Call("Execute", sender, funds, NoMsg, r)
            /\ lastRecipient' = lastRecipient
            /\ settled' = IF r.ok THEN Append(settled, "Execute") ELSE settled
    /\ UNCHANGED height

Execute == ExecuteFrom(Funds)

\* ExecuteMsg::Burn with attached funds from F
BurnFrom(F) ==
    /\ last = <<>>
    /\ \E sender \in Addrs, funds \in F :
         LET r == execute_burn(CONFIG, height, sender, funds)
         IN /\ CONFIG' = r.storage
            /\ last' = Call("Burn", sender, funds, NoMsg, r)
            /\ lastRecipient' = lastRecipient
            /\ settled' = IF r.ok THEN Append(settled, "Burn") ELSE settled
    /\ UNCHANGED height

Burn == BurnFrom(Funds)

Query ==
    /\ last = <<>>
    /\ last' = Call("Query", "", <<>>, NoMsg, query_config(CONFIG))
    /\ UNCHANGED <<CONFIG, height, lastRecipient, settled>>

\* the host takes the answer; the next invocation starts from the stored record
Return ==
    /\ last # <<>>
    /\ last' = <<>>
    /\ UNCHANGED <<CONFIG, height, lastRecipient, settled>>

\* env.block.height grows between invocations
Tick ==
    /\ last = <<>>
    /\ height < MaxHeight
    /\ height' = height + 1
    /\ UNCHANGED <<CONFIG, last, lastRecipient, settled>>

Next ==
    \/ Instantiate
    \/ Transfer
    \/ Execute
    \/ Burn
    \/ Query
    \/ Return
    \/ Tick

Spec == Init /\ [][Next]_vars

\* ------------------------------------------- the same contract, fair schedule
\* One collateral, one counter_offer; the clock keeps advancing, answers are
\* taken, and Burn with empty funds keeps being attempted.
LiveCounterOffer == <<[denom |-> "ETH", amount |-> 1]>>
LiveFunds == {<<>>, LiveCounterOffer}
LiveInstantiate == InstantiateFrom({Collateral}, {LiveCounterOffer})
LiveTransfer == TransferFrom({<<>>})
LiveExecute == ExecuteFrom(LiveFunds)
LiveBurn == BurnFrom(LiveFunds)
BurnEmpty == BurnFrom({<<>>})

NextLive ==
    \/ LiveInstantiate
    \/ LiveTransfer
    \/ LiveExecute
    \/ LiveBurn
    \/ Query
    \/ Return
    \/ Tick

SpecLive ==
    /\ Init
    /\ [][NextLive]_vars
    /\ WF_vars(Return)
    /\ SF_vars(Tick)
    /\ SF_vars(BurnEmpty)

\* ------------------------------------------------------------ observations
L == last[1]
Called(op) == last # <<>> /\ L.op = op
\* the invocation just answered ran against a stored record
OnLive(op) == Called(op) /\ L.before # <<>>
Rec == L.before[1]

\* number of entries of a Vec<Coin> equal to coin c
Count(c, s) == Cardinality({i \in DOMAIN s : s[i] = c})
SameMultiset(a, b) == \A c \in Coins : Count(c, a) = Count(c, b)
\* no denomination appears in two entries
NoDuplicateDenoms(s) == \A i, j \in DOMAIN s : s[i].denom = s[j].denom => i = j

\* ------------------------------------------------------------------ claims

\* C1: Execute on a live record by the current owner, at a height strictly
\* below expires, with attached funds equal to counter_offer, succeeds and
\* emits exactly two transfers in order (counter_offer to creator, then
\* collateral to the owner); the record is deleted and a Config query issued
\* next fails with not-found.
C1_ExecutePaysAndDeletes ==
    (OnLive("Execute") /\ L.sender = Rec.owner /\ L.height < Rec.expires
        /\ L.funds = Rec.counter_offer)
    => /\ L.ok
       /\ L.messages = <<BankSend(Rec.creator, Rec.counter_offer),
                         BankSend(Rec.owner, Rec.collateral)>>
       /\ CONFIG = <<>>
       /\ query_config(CONFIG) = QueryErr(NotFound)

C1_Witness ==
    /\ OnLive("Execute") /\ L.ok
    /\ Len(L.messages) = 2
    /\ Rec.creator # Rec.owner
    /\ Rec.collateral # <<>>
    /\ Rec.collateral # Rec.counter_offer

\* C2: Execute compares the attached funds with counter_offer as multisets:
\* by the owner before expiry it succeeds for every attached list holding the
\* same (denomination, amount) entries in any order, and fails with
\* CounterOfferMismatch only when the two differ as multisets.  Stated for
\* lists in which every denomination appears at most once.
C2_MultisetComparison ==
    (OnLive("Execute") /\ L.sender = Rec.owner /\ L.height < Rec.expires
        /\ NoDuplicateDenoms(L.funds) /\ NoDuplicateDenoms(Rec.counter_offer))
    => /\ SameMultiset(L.funds, Rec.counter_offer) => L.ok
       /\ L.err.kind = "CounterOfferMismatch" => ~SameMultiset(L.funds, Rec.counter_offer)

\* C3: Burn on a live record at a height at or after expires with empty
\* attached funds succeeds for any caller, emits exactly one transfer
\* (collateral to creator) and deletes the record.
C3_BurnByAnyone ==
    (OnLive("Burn") /\ L.height >= Rec.expires /\ L.funds = <<>>)
    => /\ L.ok
       /\ L.messages = <<BankSend(Rec.creator, Rec.collateral)>>
       /\ CONFIG = <<>>

C3_Witness ==
    /\ OnLive("Burn") /\ L.ok
    /\ L.sender # Rec.owner
    /\ L.sender # Rec.creator
    /\ Rec.owner # Rec.creator
    /\ Len(L.messages) = 1

\* C4: a failing Instantiate, Transfer, Execute or Burn leaves the persisted
\* record exactly as it was before the call and emits no transfer.
C4_FailureLeavesRecord ==
    (last # <<>> /\ L.op \in {"Instantiate", "Transfer", "Execute", "Burn"} /\ ~L.ok)
    => /\ CONFIG = L.before
       /\ L.messages = <<>>

C4_Witness ==
    /\ OnLive("Transfer") /\ ~L.ok
    /\ L.sender = Rec.owner
    /\ L.err.kind = "InvalidAddress"
    /\ CONFIG = L.before

\* C5: Execute checks its preconditions in a fixed order on a live record:
\* a caller other than the owner gets Unauthorized whatever the height and
\* funds; the owner at or after expires gets OptionExpired carrying expires
\* whatever the funds; only the owner before expiry with funds that differ
\* from counter_offer gets CounterOfferMismatch, carrying the attached funds
\* as offer and the record's counter_offer.
C5_ExecuteCheckOrder ==
    OnLive("Execute")
    => /\ L.sender # Rec.owner => (~L.ok /\ L.err = Unauthorized)
       /\ (L.sender = Rec.owner /\ L.height >= Rec.expires)
            => (~L.ok /\ L.err = OptionExpired(Rec.expires))
       /\ (L.sender = Rec.owner /\ L.height < Rec.expires /\ L.funds # Rec.counter_offer)
            => (~L.ok /\ L.err = CounterOfferMismatch(L.funds, Rec.counter_offer))
       /\ L.err.kind = "CounterOfferMismatch"
            => (L.sender = Rec.owner /\ L.height < Rec.expires
                /\ L.funds # Rec.counter_offer)

C5_Witness ==
    /\ OnLive("Execute")
    /\ L.sender # Rec.owner
    /\ L.height >= Rec.expires
    /\ L.funds # Rec.counter_offer
    /\ L.err = Unauthorized

\* C6: Burn on a live record before expires fails with OptionNotExpired
\* carrying expires, with or without attached funds; Burn at or after expires
\* with non-empty attached funds fails with FundsSentWithBurn.
C6_BurnCheckOrder ==
    OnLive("Burn")
    => /\ L.height < Rec.expires => (~L.ok /\ L.err = OptionNotExpired(Rec.expires))
       /\ (L.height >= Rec.expires /\ L.funds # <<>>)
            => (~L.ok /\ L.err = FundsSentWithBurn)

C6_Witness ==
    /\ OnLive("Burn")
    /\ L.height < Rec.expires
    /\ L.funds # <<>>
    /\ L.err.kind = "OptionNotExpired"

\* C7: an Instantiate with expires strictly above the current height succeeds
\* with no outbound transfer; the persisted record has creator = owner =
\* caller, collateral = attached funds, counter_offer and expires as given,
\* and a Config query issued next returns exactly those values.
C7_InstantiateStores ==
    (Called("Instantiate") /\ L.msg.expires > L.height)
    => /\ L.ok
       /\ L.messages = <<>>
       /\ CONFIG = <<[creator |-> L.sender,
                      owner |-> L.sender,
                      collateral |-> L.funds,
                      counter_offer |-> L.msg.counter_offer,
                      expires |-> L.msg.expires]>>
       /\ query_config(CONFIG) = QueryOk([creator |-> L.sender,
                                          owner |-> L.sender,
                                          collateral |-> L.funds,
                                          counter_offer |-> L.msg.counter_offer,
                                          expires |-> L.msg.expires])

C7_Witness ==
    /\ Called("Instantiate") /\ L.ok
    /\ L.funds # <<>>
    /\ L.funds # L.msg.counter_offer
    /\ Len(L.msg.counter_offer) = 2
    /\ L.height > 0

C9_TransferOwnerOnly ==
    OnLive("Transfer")
    => /\ L.ok => L.sender = Rec.owner
       /\ L.sender # Rec.owner
            => (~L.ok /\ L.err = Unauthorized /\ CONFIG = L.before)
       /\ (L.sender = Rec.owner /\ addr_validate(L.msg.recipient).ok)
            => /\ L.ok
               /\ CONFIG = <<[Rec EXCEPT !.owner = L.msg.recipient]>>
               /\ L.attributes = <<<<"action", "transfer">>,
                                   <<"owner", CONFIG[1].owner>>>>

C9_Witness ==
    /\ OnLive("Transfer") /\ ~L.ok
    /\ L.sender = Rec.creator
    /\ Rec.owner # Rec.creator
    /\ L.err = Unauthorized

\* C10: after successful transfers the only identity whose Execute can
\* succeed is the recipient of the most recent successful Transfer; the
\* previous owner's Execute fails with Unauthorized even with matching funds
\* before expiry.
C10_OnlyLatestRecipientExecutes ==
    (OnLive("Execute") /\ lastRecipient # <<>>)
    => /\ L.ok => L.sender = lastRecipient[1]
       /\ L.sender # lastRecipient[1] => (~L.ok /\ L.err = Unauthorized)

C10_Witness ==
    /\ OnLive("Execute") /\ lastRecipient # <<>>
    /\ L.sender = Rec.creator
    /\ L.sender # lastRecipient[1]
    /\ L.funds = Rec.counter_offer
    /\ L.height < Rec.expires
    /\ L.err = Unauthorized

\* C11: Terminated is absorbing: a successful Execute or Burn leaves no
\* record; while no record exists every Transfer, Execute, Burn and Config
\* query fails with not-found and emits no transfer, and the record stays
\* absent; only a successful Instantiate makes a record appear.
C11_TerminatedAbsorbing ==
    [][ /\ (last = <<>> /\ last' # <<>> /\ last'[1].op \in {"Execute", "Burn"}
              /\ last'[1].ok)
            => CONFIG' = <<>>
        /\ CONFIG = <<>>
            => IF CONFIG' # <<>>
               THEN last' # <<>> /\ last'[1].op = "Instantiate" /\ last'[1].ok
               ELSE (last = <<>> /\ last' # <<>>
                       /\ last'[1].op \in {"Transfer", "Execute", "Burn", "Query"})
                    => /\ ~last'[1].ok
                       /\ last'[1].err = NotFound
                       /\ last'[1].messages = <<>>
      ]_vars

\* a call answered not-found after the record of this instance was settled
C11_Witness ==
    /\ Called("Execute")
    /\ L.before = <<>>
    /\ settled # <<>>
    /\ L.err = NotFound
    /\ CONFIG = <<>>

\* C12: a record is only ever constructed by an Instantiate made when no
\* record exists: no successful Instantiate replaces a live record.
C12_NoInstantiateOverLive ==
    (Called("Instantiate") /\ L.ok) => L.before = <<>>

\* C13: from creation until termination, under Transfer, Execute, Burn and
\* Config calls (successful or failing), creator, collateral, counter_offer
\* and expires keep their values; owner changes only by a successful Transfer.
C13_FieldsImmutable ==
    [][ (CONFIG # <<>> /\ CONFIG' # <<>>
           /\ ~(last' # <<>> /\ last'[1].op = "Instantiate"))
        => /\ CONFIG'[1].creator = CONFIG[1].creator
           /\ CONFIG'[1].collateral = CONFIG[1].collateral
           /\ CONFIG'[1].counter_offer = CONFIG[1].counter_offer
           /\ CONFIG'[1].expires = CONFIG[1].expires
           /\ CONFIG'[1].owner # CONFIG[1].owner
                => (last = <<>> /\ last' # <<>> /\ last'[1].op = "Transfer"
                    /\ last'[1].ok)
      ]_vars

C13_Witness ==
    /\ OnLive("Transfer") /\ L.ok
    /\ CONFIG[1].owner # Rec.owner
    /\ CONFIG[1].creator = Rec.creator
    /\ Rec.owner # Rec.creator
    /\ Rec.collateral # <<>>

\* C14: Transfer has no expiry check and moves no funds: by the owner with a
\* valid recipient it succeeds at every height, heights at or after expires
\* included, and every successful Transfer emits no transfer instruction.
C14_TransferAnyHeight ==
    /\ (OnLive("Transfer") /\ L.sender = Rec.owner /\ addr_validate(L.msg.recipient).ok)
         => L.ok
    /\ (Called("Transfer") /\ L.ok) => L.messages = <<>>

C14_Witness ==
    /\ OnLive("Transfer") /\ L.ok
    /\ L.height >= Rec.expires
    /\ L.messages = <<>>
    /\ CONFIG[1].owner = L.msg.recipient

\* the value of the action attribute each command is expected to report
ActionName(op) ==
    CASE op = "Instantiate" -> "instantiate"
      [] op = "Transfer" -> "transfer"
      [] op = "Execute" -> "execute"
      [] op = "Burn" -> "burn"
      [] OTHER -> ""
HasAction(attrs, name) == \E i \in DOMAIN attrs : attrs[i] = <<"action", name>>

\* C15 (as stated): every successful Instantiate, Transfer, Execute and Burn
\* returns attributes that include an action attribute naming the command.
C15_EveryCommandReportsAction ==
    (last # <<>> /\ L.op \in {"Instantiate", "Transfer", "Execute", "Burn"} /\ L.ok)
    => HasAction(L.attributes, ActionName(L.op))

\* C15 (amended): every successful Transfer, Execute and Burn returns
\* attributes that include an action attribute naming the command; a
\* successful Instantiate returns no attribute at all.
C15_ActionAttribute ==
    /\ (last # <<>> /\ L.op \in {"Transfer", "Execute", "Burn"} /\ L.ok)
         => HasAction(L.attributes, ActionName(L.op))
    /\ (Called("Instantiate") /\ L.ok) => L.attributes = <<>>

C15_Witness ==
    /\ OnLive("Burn") /\ L.ok
    /\ L.attributes = <<<<"action", "burn">>>>

\* C16: in every state with a live record, collateral and counter_offer each
\* hold any denomination at most once.
C16_NoDuplicateDenoms ==
    CONFIG # <<>>
    => /\ NoDuplicateDenoms(CONFIG[1].collateral)
       /\ NoDuplicateDenoms(CONFIG[1].counter_offer)

\* C17: for a live record the time guards of Execute and Burn are mutually
\* exclusive and exhaustive at every height: below expires only Execute
\* passes its time check, at or after expires (height = expires included)
\* only Burn does; as the clock never goes back, once Burn is time-enabled it
\* stays so for that record and no later Execute on it succeeds.
C17_TimeGuardsExclusive ==
    [][ /\ (last = <<>> /\ last' # <<>> /\ CONFIG # <<>>)
           => LET c == last'[1]
                  passesExecute == c.sender = CONFIG[1].owner /\ c.err.kind # "OptionExpired"
                  passesBurn == c.err.kind # "OptionNotExpired"
              IN /\ (c.op = "Execute" /\ c.sender = CONFIG[1].owner)
                      => (passesExecute <=> height < CONFIG[1].expires)
                 /\ c.op = "Burn"
                      => (passesBurn <=> height >= CONFIG[1].expires)
                 /\ (c.op = "Execute" /\ c.ok) => height < CONFIG[1].expires
                 /\ (c.op = "Burn" /\ c.ok) => height >= CONFIG[1].expires
        /\ (CONFIG # <<>> /\ height >= CONFIG[1].expires)
           => /\ ~(last = <<>> /\ last' # <<>> /\ last'[1].op = "Execute" /\ last'[1].ok)
              /\ (CONFIG' # <<>>
                    /\ ~(last' # <<>> /\ last'[1].op = "Instantiate" /\ last'[1].ok))
                 => height' >= CONFIG'[1].expires
      ]_vars

C17_Witness ==
    /\ OnLive("Execute")
    /\ L.sender = Rec.owner
    /\ L.height = Rec.expires
    /\ L.funds = Rec.counter_offer
    /\ L.err = OptionExpired(Rec.expires)
    /\ execute_burn(CONFIG, height, "anyone", <<>>).ok

\* C18: the collateral of one created record is routed by at most one
\* transfer instruction in total, to the owner by a successful Execute or to
\* the creator by a successful Burn, never both and never twice; the
\* counter_offer is routed to the creator at most once, only together with
\* the collateral-to-owner instruction; no other call emits a transfer.
C18_CollateralRoutedOnce ==
    /\ Len(settled) <= 1
    /\ last # <<>>
         => IF L.op = "Execute" /\ L.ok
            THEN /\ L.before # <<>>
                 /\ L.messages = <<BankSend(Rec.creator, Rec.counter_offer),
                                   BankSend(Rec.owner, Rec.collateral)>>
            ELSE IF L.op = "Burn" /\ L.ok
            THEN /\ L.before # <<>>
                 /\ L.messages = <<BankSend(Rec.creator, Rec.collateral)>>
            ELSE L.messages = <<>>

C18_Witness ==
    /\ OnLive("Burn") /\ L.ok
    /\ settled = <<"Burn">>
    /\ Rec.collateral # <<>>
    /\ Rec.owner # Rec.creator

\* the records SpecLive can store
LiveRecords ==
    [creator : Addrs, owner : Addrs, collateral : {Collateral},
     counter_offer : {LiveCounterOffer}, expires : Expiries]

\* some terminating call would succeed now
Terminable ==
    IF height < CONFIG[1].expires
    THEN execute_execute(CONFIG, height, CONFIG[1].owner, CONFIG[1].counter_offer).ok
    ELSE \A a \in Addrs : execute_burn(CONFIG, height, a, <<>>).ok

\* the same option, whoever owns it now
SameOption(a, b) == [a EXCEPT !.owner = ""] = [b EXCEPT !.owner = ""]

\* the option of record r was deleted by a successful Execute or Burn, which
\* paid its collateral out
Settled(r) ==
    /\ last # <<>>
    /\ L.op \in {"Execute", "Burn"}
    /\ L.ok
    /\ L.before # <<>>
    /\ SameOption(Rec, r)
    /\ CONFIG = <<>>
    /\ \E i \in DOMAIN L.messages : L.messages[i].amount = r.collateral

\* C19: a live record can always be terminated: in every state with a live
\* record a terminating call is enabled (Execute by the owner with matching
\* funds before expiry, Burn with empty funds by anyone from expiry on), and
\* with an advancing clock and Burn with empty funds attempted fairly every
\* live record is eventually deleted with its collateral paid out.
C19_AlwaysTerminated ==
    /\ []((last = <<>> /\ CONFIG # <<>>) => Terminable)
    /\ \A r \in LiveRecords : (CONFIG = <<r>>) ~> Settled(r)

\* C20: Transfer ignores attached funds: by the owner with a valid recipient
\* it succeeds with or without funds, emits no transfer and changes only
\* owner; attached funds are never a reason to reject it; the later Execute
\* or Burn pays out only the record's counter_offer and collateral.
C20_TransferIgnoresFunds ==
    /\ (OnLive("Transfer") /\ L.sender = Rec.owner /\ addr_validate(L.msg.recipient).ok)
         => /\ L.ok
            /\ L.messages = <<>>
            /\ CONFIG = <<[Rec EXCEPT !.owner = L.msg.recipient]>>
    /\ Called("Transfer")
         => /\ L.err.kind \in {"None", "NotFound", "Unauthorized", "InvalidAddress"}
            /\ L.ok = execute_transfer(L.before, L.height, L.sender, <<>>, L.msg.recipient).ok
    /\ (OnLive("Execute") /\ L.ok)
         => L.messages = <<BankSend(Rec.creator, Rec.counter_offer),
                           BankSend(Rec.owner, Rec.collateral)>>
    /\ (OnLive("Burn") /\ L.ok)
         => L.messages = <<BankSend(Rec.creator, Rec.collateral)>>

C20_Witness ==
    /\ OnLive("Transfer") /\ L.ok
    /\ L.funds # <<>>
    /\ L.funds # Rec.collateral
    /\ CONFIG[1].collateral = Rec.collateral

====
